---------------------------- MODULE Spec2Model ----------------------------
(***************************************************************************)
(* Cart and catalog request handlers of the MERN e-commerce backend,       *)
(* modelled as a state machine over the two document collections they      *)
(* act on: the Cart collection and the Product collection.                 *)
(*                                                                         *)
(* A request handled to completion is one step: it leaves in `last' the     *)
(* request and the response computed for it.  Sending the response is the  *)
(* next step, and only then is the next request taken: requests are        *)
(* handled one after the other.                                            *)
(*                                                                         *)
(* What the handlers leave to the store is taken as follows.  Document     *)
(* ids sent in a body are well-formed.  cart.save() and findOneAndUpdate   *)
(* persist the items they are given: the handlers add no check of their    *)
(* own, and the Cart schema lies outside the controllers.  populate()      *)
(* resolves items.product against the Product collection and yields null   *)
(* for a product the collection does not hold.  An exception thrown in a   *)
(* handler wrapped by asyncHandler is answered 500 and writes nothing.     *)
(*                                                                         *)
(* The handlers are async functions: each await hands control to the       *)
(* other requests in flight.  SpecRace takes the cart handlers apart at    *)
(* their awaits: a request reads the cart (findOne) in one step and        *)
(* writes (create, save) in a later one, and the steps of two requests     *)
(* interleave.  There save() sends what the document tracked as modified:  *)
(* items.push() is sent as a $push, an assignment to the quantity of the   *)
(* item at position k as a $set of items.k.quantity, an assignment to      *)
(* items as a $set of the array.  A $set under a position, and a $set of   *)
(* the array, carry the version the document was read with and fail with   *)
(* a VersionError when the array was pushed to or replaced since; $push    *)
(* and the $set of the array advance the version.  The version is held as  *)
(* the flag `stale' of the requests that read before such a write.         *)
(***************************************************************************)
EXTENDS Integers, Sequences, FiniteSets, TLC

VARIABLES
    carts,      \* the Cart collection: documents [user, items] in insertion order
    products,   \* the Product collection: the set of live product documents
    usedIds,    \* product ids the store has assigned so far (never assigned again)
    last,       \* the request being answered and its response, or NoRequest
    inflight    \* interleaved cart requests: what each has read and answered

vars == <<carts, products, usedIds, last, inflight>>

----------------------------------------------------------------------------
(* Bounds and input domains *)

\* Cap on a stored item quantity, in whole units: an accumulating add is not
\* taken beyond it.
MaxQty == 3

\* Longest search term sent to the product list, in characters.
MaxTermLen == 2

\* Cap on the number of items of a cart where requests interleave: a push is
\* not taken beyond it.
MaxItems == 2

\* Users that send requests (req.user._id, req.params.userId).
Users == {"u1", "u2"}

\* Well-formed document ids: the ones the store may assign to a product and
\* the ones a caller may name in a request.
ProductIds == {"p1", "p2"}

\* A key that the request body does not carry.
Absent == "<absent>"

\* A userId path parameter that is no document id (the store cannot cast it).
BadId == "<bad-id>"

\* Numbers are held in half units, so that a non-integer can be sent and
\* stored: 3 is the number 1.5, Whole(2) = 4 is the number 2.
Whole(n) == 2 * n

\* A number of a request body, or the key missing from the body.
Num(h) == [present |-> TRUE, half |-> h]
NoNum == [present |-> FALSE, half |-> 0]

\* quantity values a body may carry: -1, -0.5, 0, 0.5, 1, 1.5, 2, or none.
QuantityInputs == {NoNum} \cup {Num(h) : h \in -2..4}

ProductInputs == ProductIds \cup {Absent}

CartBodies == [product : ProductInputs, quantity : QuantityInputs]

\* A cart item: a product id and a quantity (a number, in half units).
Item(p, q) == [product |-> p, quantity |-> q]

\* The item sequences sent to the bulk replace: empty, a non-positive
\* quantity, a repeated product, two products.
ReplaceInputs ==
    { <<>>,
      <<Item("p1", Whole(0))>>,
      <<Item("p1", Whole(1)), Item("p1", Whole(2))>>,
      <<Item("p2", Whole(1)), Item("p1", Whole(1))>> }

----------------------------------------------------------------------------
(* cartItemSchema and its validation with abortEarly: false *)

\* Mutant of IsInteger: the .integer() rule is missing.
IsIntegerNotChecked(n) == TRUE

IsInteger(n) == n.half % 2 = 0

\* Mutant of IsPositive: zero passes (.min(0) for .positive()).
IsPositiveOrZero(n) == n.half >= 0

IsPositive(n) == n.half > 0

ProductErrors(body) ==
    IF body.product = Absent THEN <<"Product ID is required">> ELSE <<>>

QuantityErrors(body) ==
    IF ~body.quantity.present
    THEN <<"Quantity is required">>
    ELSE (IF IsInteger(body.quantity) THEN <<>>
          ELSE <<"Quantity must be an integer">>)
         \o
         (IF IsPositive(body.quantity) THEN <<>>
          ELSE <<"Quantity must be positive">>)

\* error.details.map((err) => err.message): every violation, in schema order.
cartItemSchemaValidate(body) == ProductErrors(body) \o QuantityErrors(body)

\* The validated value: the product id and the quantity, as they were sent.
ValueOf(body) == [product |-> body.product, quantity |-> body.quantity.half]

----------------------------------------------------------------------------
(* Store primitives *)

\* Mutant of FindOne: the filter is missing, the first cart is found.
FindOneOfAnyUser(cs, user) == IF Len(cs) > 0 THEN 1 ELSE 0

\* Cart.findOne({ user }): the position of the first cart of the user, 0 if none.
FindOne(cs, user) ==
    IF \E i \in 1..Len(cs) : cs[i].user = user
    THEN CHOOSE i \in 1..Len(cs) :
            /\ cs[i].user = user
            /\ \A j \in 1..(i - 1) : cs[j].user # user
    ELSE 0

HasCart(cs, user) == FindOne(cs, user) # 0

CartItems(cs, user) == cs[FindOne(cs, user)].items

LiveIds == {d.id : d \in products}

\* Mutant of FindItem: the predicate matches any item, so find() returns the
\* first item of a cart that has one.
FindItemMatchesAny(items, product) == IF Len(items) > 0 THEN 1 ELSE 0

\* cart.items.find((item) => item.product.equals(product)) on an unpopulated
\* cart: the position of the first item of the product, 0 if none.
FindItem(items, product) ==
    IF \E i \in 1..Len(items) : items[i].product = product
    THEN CHOOSE i \in 1..Len(items) :
            /\ items[i].product = product
            /\ \A j \in 1..(i - 1) : items[j].product # product
    ELSE 0

\* cart.save(): the document at position i is written back with its items.
Save(cs, i, items) == [cs EXCEPT ![i].items = items]

\* The populated cart of addToCart: items.product is replaced by the product
\* document, or by null when the catalog holds no such product.  find() calls
\* item.product.equals(product) item by item and stops at the first match, so
\* it throws a TypeError at the first item whose product is null unless an
\* earlier item matched.  Result: the position found, 0 for none, -1 for the
\* TypeError.
PopulatedFind(items, product, live) ==
    LET stops == {i \in 1..Len(items) :
                    items[i].product \notin live \/ items[i].product = product}
    IN  IF stops = {} THEN 0
        ELSE LET i == CHOOSE k \in stops : \A j \in stops : k <= j
             IN  IF items[i].product \notin live THEN -1 ELSE i

\* Mutant of MergeItem: the quantity sent replaces the one held (= for +=).
MergeItemReplaces(items, k, product, quantity) ==
    IF k # 0
    THEN [items EXCEPT ![k].quantity = quantity]
    ELSE Append(items, Item(product, quantity))

\* Mutant of MergeItem: the item found is ignored and the new one is pushed.
MergeItemAlwaysPushes(items, k, product, quantity) ==
    Append(items, Item(product, quantity))

\* if (item) item.quantity += quantity; else cart.items.push({product, quantity})
MergeItem(items, k, product, quantity) ==
    IF k # 0
    THEN [items EXCEPT ![k].quantity = @ + quantity]
    ELSE Append(items, Item(product, quantity))

\* Mutant of SetQuantity: the quantity sent is added to the one held (+= for =).
SetQuantityAdds(items, k, quantity) == [items EXCEPT ![k].quantity = @ + quantity]

\* item.quantity = quantity
SetQuantity(items, k, quantity) == [items EXCEPT ![k].quantity = quantity]

\* Mutant of FilterItems: the negation is missing, the items of the product
\* are the ones kept.
FilterItemsKeepsProduct(items, productId) ==
    SelectSeq(items, LAMBDA it : it.product = productId)

\* cart.items.filter((item) => !item.product.equals(productId))
FilterItems(items, productId) ==
    SelectSeq(items, LAMBDA it : it.product # productId)

\* Cart.create({ user, items })
CreateCart(cs, user, items) == Append(cs, [user |-> user, items |-> items])

\* Mutant of FindOneAndUpsert: upsert is not set, a missing cart stays missing.
FindOneAndUpdateOnly(cs, user, items) ==
    IF HasCart(cs, user) THEN Save(cs, FindOne(cs, user), items) ELSE cs

\* Cart.findOneAndUpdate({ user }, { items }, { new: true, upsert: true })
FindOneAndUpsert(cs, user, items) ==
    IF HasCart(cs, user)
    THEN Save(cs, FindOne(cs, user), items)
    ELSE CreateCart(cs, user, items)

----------------------------------------------------------------------------
(* Responses *)

\* A product payload none of whose keys is carried, and a search query that
\* was not sent.
NoPayload ==
    [name |-> Absent, description |-> Absent, price |-> NoNum,
     category |-> Absent, stock |-> NoNum, image |-> Absent, brand |-> Absent]
NoQuery == [present |-> FALSE, chars |-> <<>>]

\* The request and its response.  A catalog request carries a payload or a
\* query, and a catalog read answers with a body: the product documents and,
\* for a list, their count.
FullResponse(op, user, product, quantity, items, payload, query, status, errors, body, count) ==
    [op |-> op, user |-> user, product |-> product, quantity |-> quantity,
     items |-> items, payload |-> payload, query |-> query,
     status |-> status, errors |-> errors, body |-> body, count |-> count]

Response(op, user, product, quantity, items, status, errors) ==
    FullResponse(op, user, product, quantity, items, NoPayload, NoQuery, status,
                 errors, {}, 0)

\* The response to a catalog request about product `id' (or a category id).
CatalogResponse(op, id, payload, query, status, errors, body, count) ==
    FullResponse(op, Absent, id, NoNum, <<>>, payload, query, status, errors,
                 body, count)

NoRequest == Response("none", Absent, Absent, NoNum, <<>>, 0, <<>>)

----------------------------------------------------------------------------
(* Cart handlers *)
(* Each handler is a function of the collections and the request: the      *)
(* response it sends and the Cart collection it leaves.                    *)

Outcome(status, errors, cs) == [status |-> status, errors |-> errors, carts |-> cs]

\* GET /api/cart
getCart(cs, user) == Outcome(200, <<>>, cs)

\* POST /api/cart/add
addToCart(cs, live, user, body) ==
    LET errors == cartItemSchemaValidate(body)
        value == ValueOf(body)
        i == FindOne(cs, user)
    IN  IF errors # <<>> THEN Outcome(400, errors, cs)
        ELSE IF i = 0
        THEN Outcome(200, <<>>,
                     CreateCart(cs, user, <<Item(value.product, value.quantity)>>))
        ELSE LET k == PopulatedFind(cs[i].items, value.product, live)
             IN  IF k = -1 THEN Outcome(500, <<"TypeError">>, cs)
                 ELSE Outcome(200, <<>>,
                              Save(cs, i, MergeItem(cs[i].items, k, value.product,
                                                    value.quantity)))

\* Mutant of updateCart: a missing cart is created with the item, as add does.
updateCartCreatesCart(cs, user, body) ==
    LET errors == cartItemSchemaValidate(body)
        value == ValueOf(body)
        i == FindOne(cs, user)
    IN  IF errors # <<>> THEN Outcome(400, errors, cs)
        ELSE IF i = 0
        THEN Outcome(200, <<>>,
                     CreateCart(cs, user, <<Item(value.product, value.quantity)>>))
        ELSE LET k == FindItem(cs[i].items, value.product)
             IN  IF k = 0 THEN Outcome(404, <<"Item not found in cart">>, cs)
                 ELSE Outcome(200, <<>>,
                              Save(cs, i, SetQuantity(cs[i].items, k,
                                                      value.quantity)))

\* PUT /api/cart/update
updateCart(cs, user, body) ==
    LET errors == cartItemSchemaValidate(body)
        value == ValueOf(body)
        i == FindOne(cs, user)
    IN  IF errors # <<>> THEN Outcome(400, errors, cs)
        ELSE IF i = 0 THEN Outcome(404, <<"Cart not found">>, cs)
        ELSE LET k == FindItem(cs[i].items, value.product)
             IN  IF k = 0 THEN Outcome(404, <<"Item not found in cart">>, cs)
                 ELSE Outcome(200, <<>>,
                              Save(cs, i, SetQuantity(cs[i].items, k,
                                                      value.quantity)))

\* Mutant of removeFromCart: a cart left without items is deleted.
removeFromCartDropsEmptyCart(cs, user, productId) ==
    LET i == FindOne(cs, user)
    IN  IF i = 0 THEN Outcome(404, <<"Cart not found">>, cs)
        ELSE IF FilterItems(cs[i].items, productId) = <<>>
        THEN Outcome(200, <<>>, SubSeq(cs, 1, i - 1) \o SubSeq(cs, i + 1, Len(cs)))
        ELSE Outcome(200, <<>>, Save(cs, i, FilterItems(cs[i].items, productId)))

\* DELETE /api/cart/remove/:productId
removeFromCart(cs, user, productId) ==
    LET i == FindOne(cs, user)
    IN  IF i = 0 THEN Outcome(404, <<"Cart not found">>, cs)
        ELSE Outcome(200, <<>>, Save(cs, i, FilterItems(cs[i].items, productId)))

\* PUT /api/cart/update/:userId.  A userId the store cannot cast to a document
\* id makes findOneAndUpdate reject: catch (error).
updateCartForUser(cs, userId, items) ==
    IF userId = BadId THEN Outcome(500, <<"Internal Server Error">>, cs)
    ELSE Outcome(200, <<>>, FindOneAndUpsert(cs, userId, items))

----------------------------------------------------------------------------
(* Catalog handlers *)

\* A product payload: a key the body does not carry is Absent (NoNum for a
\* number).
ValidPayload ==
    [name |-> "Shoe", description |-> "d", price |-> Num(2), category |-> "c1",
     stock |-> Num(2), image |-> Absent, brand |-> Absent]

ProductPayloads ==
    {ValidPayload, [ValidPayload EXCEPT !.name = Absent, !.price = NoNum]}

\* Product names and category ids of the catalog requests, and every payload
\* over them: each required key carried or not, brand carried or not.
Names == {"Shoe", "Hat"}
Categories == {"c1", "c2"}
CatalogPayloads ==
    [name : Names \cup {Absent}, description : {"d", Absent},
     price : {Num(2), NoNum}, category : Categories \cup {Absent},
     stock : {Num(2), NoNum}, image : {Absent}, brand : {"b", Absent}]

\* The characters of a product name.
NameChars(name) ==
    CASE name = "Shoe" -> <<"S", "h", "o", "e">>
      [] name = "Hat" -> <<"H", "a", "t">>

\* The characters of search terms: two letters, and two characters that are
\* special in a regular expression.  A search term is a sequence of them, the
\* empty one included; a query carries a term or none.
SearchAlphabet == {"S", "h", ".", "("}
SearchTerms == UNION {[1..n -> SearchAlphabet] : n \in 0..MaxTermLen}
Queries == {NoQuery} \cup {[present |-> TRUE, chars |-> t] : t \in SearchTerms}

\* Mutant of productSchemaValidate: validation stops at the first violation
\* (abortEarly is not switched off).
productSchemaValidateAbortsEarly(payload) ==
    IF payload.name = Absent THEN <<"Name is required">>
    ELSE IF payload.description = Absent THEN <<"Description is required">>
    ELSE IF ~payload.price.present THEN <<"Price is required">>
    ELSE IF payload.category = Absent THEN <<"Category is required">>
    ELSE IF ~payload.stock.present THEN <<"Stock is required">>
    ELSE <<>>

\* productSchema.validate(req.body, { abortEarly: false }): one message per
\* missing required key, in schema order.
productSchemaValidate(payload) ==
    (IF payload.name = Absent THEN <<"Name is required">> ELSE <<>>)
    \o (IF payload.description = Absent
        THEN <<"Description is required">> ELSE <<>>)
    \o (IF ~payload.price.present THEN <<"Price is required">> ELSE <<>>)
    \o (IF payload.category = Absent THEN <<"Category is required">> ELSE <<>>)
    \o (IF ~payload.stock.present THEN <<"Stock is required">> ELSE <<>>)

ProductDoc(id, payload) ==
    [id |-> id, name |-> payload.name, description |-> payload.description,
     price |-> payload.price, category |-> payload.category,
     stock |-> payload.stock, image |-> payload.image, brand |-> payload.brand]

\* POST /api/products.  The store assigns the new document an id it has never
\* assigned before.
createProduct(payload) ==
    LET errors == productSchemaValidate(payload)
    IN  IF errors # <<>>
        THEN /\ last' = CatalogResponse("createProduct", Absent, payload,
                                        NoQuery, 400, errors, {}, 0)
             /\ UNCHANGED <<carts, products, usedIds, inflight>>
        ELSE \E id \in ProductIds \ usedIds :
                /\ products' = products \cup {ProductDoc(id, payload)}
                /\ usedIds' = usedIds \cup {id}
                /\ last' = CatalogResponse("createProduct", id, payload,
                                           NoQuery, 201, <<>>,
                                           {ProductDoc(id, payload)}, 0)
                /\ UNCHANGED <<carts, inflight>>

\* Mutant of FindByIdAndDelete: every document is removed.
FindByIdAndDeleteRemovesAll(ps, id) == {}

\* Product.findByIdAndDelete(id): the collection without the document of
\* that id.
FindByIdAndDelete(ps, id) == {d \in ps : d.id # id}

\* DELETE /api/products/:id
deleteProduct(id) ==
    IF id \in LiveIds
    THEN /\ products' = FindByIdAndDelete(products, id)
         /\ last' = CatalogResponse("deleteProduct", id, NoPayload, NoQuery,
                                    200, <<>>, {}, 0)
         /\ UNCHANGED <<carts, usedIds, inflight>>
    ELSE /\ last' = CatalogResponse("deleteProduct", id, NoPayload, NoQuery,
                                    404, <<"Product not found">>, {}, 0)
         /\ UNCHANGED <<carts, products, usedIds, inflight>>

\* Product.findById(id): the documents of that id, none or one.
FindById(ps, id) == {d \in ps : d.id = id}

\* GET /api/products/:id
getProductById(id) ==
    LET found == FindById(products, id)
    IN  /\ last' = IF found # {}
                   THEN CatalogResponse("getProductById", id, NoPayload,
                                        NoQuery, 200, <<>>, found, 0)
                   ELSE CatalogResponse("getProductById", id, NoPayload,
                                        NoQuery, 404, <<"Product not found">>,
                                        {}, 0)
        /\ UNCHANGED <<carts, products, usedIds, inflight>>

\* The update document { name, description, price, category, stock, image,
\* brand } applied to a product.  image and brand are undefined when the
\* body does not carry them, and what the store does with an undefined key
\* depends on the driver in use: it drops the key from the update (the
\* field keeps its value, `keep') or writes null (the field is cleared).
ApplyUpdate(doc, payload, keep) ==
    [id |-> doc.id, name |-> payload.name, description |-> payload.description,
     price |-> payload.price, category |-> payload.category,
     stock |-> payload.stock,
     image |-> IF payload.image = Absent /\ keep THEN doc.image
               ELSE payload.image,
     brand |-> IF payload.brand = Absent /\ keep THEN doc.brand
               ELSE payload.brand]

\* Mutant of FindByIdAndUpdate: upsert is set, an id that matches nothing is
\* inserted.
FindByIdAndUpsert(ps, id, payload) ==
    IF FindById(ps, id) = {} THEN {ps \cup {ProductDoc(id, payload)}}
    ELSE {(ps \ {d}) \cup {ApplyUpdate(d, payload, keep)} :
             d \in FindById(ps, id), keep \in BOOLEAN}

\* Product.findByIdAndUpdate(id, update, { new: true }): the collections it
\* may leave.  There is no upsert: an id that matches nothing writes nothing.
FindByIdAndUpdate(ps, id, payload) ==
    IF FindById(ps, id) = {} THEN {ps}
    ELSE {(ps \ {d}) \cup {ApplyUpdate(d, payload, keep)} :
             d \in FindById(ps, id), keep \in BOOLEAN}

\* PUT /api/products/:id
updateProduct(id, payload) ==
    LET errors == productSchemaValidate(payload)
    IN  IF errors # <<>>
        THEN /\ last' = CatalogResponse("updateProduct", id, payload, NoQuery,
                                        400, errors, {}, 0)
             /\ UNCHANGED <<carts, products, usedIds, inflight>>
        ELSE \E ps \in FindByIdAndUpdate(products, id, payload) :
                /\ products' = ps
                /\ last' = IF FindById(products, id) # {}
                           THEN CatalogResponse("updateProduct", id, payload,
                                                NoQuery, 200, <<>>,
                                                FindById(ps, id), 0)
                           ELSE CatalogResponse("updateProduct", id, payload,
                                                NoQuery, 404,
                                                <<"Product not found">>, {}, 0)
                /\ UNCHANGED <<carts, usedIds, inflight>>

\* $options: "i": letters are compared without regard to case.
Lower(c) ==
    CASE c = "S" -> "s"
      [] c = "H" -> "h"
      [] OTHER -> c

\* $regex: search.  The store compiles the term as a regular expression: an
\* opening parenthesis that nothing closes does not compile.
RegexValid(chars) == \A i \in 1..Len(chars) : chars[i] # "("

\* The compiled expression matches a name when it matches at some offset: a
\* dot matches any character, a letter matches itself in either case.
RegexMatch(chars, name) ==
    LET n == NameChars(name)
    IN  \E o \in 0..(Len(n) - Len(chars)) :
            \A i \in 1..Len(chars) :
                \/ chars[i] = "."
                \/ Lower(chars[i]) = Lower(n[o + i])

\* Product.find({ name: { $regex: search, $options: "i" } })
FindByName(ps, chars) == {d \in ps : RegexMatch(chars, d.name)}

\* products.length
Count(found) == Cardinality(found)

\* GET /api/products?search=...  if (search) is false for a query without
\* the key and for the empty string.  A term that does not compile makes
\* find() reject, which asyncHandler passes on to the error handler.
getProducts(query) ==
    /\ last' =
         IF query.present /\ query.chars # <<>>
         THEN IF RegexValid(query.chars)
              THEN LET found == FindByName(products, query.chars)
                   IN  CatalogResponse("getProducts", Absent, NoPayload, query,
                                       200, <<>>, found, Count(found))
              ELSE CatalogResponse("getProducts", Absent, NoPayload, query,
                                   500, <<"Regular expression is invalid">>,
                                   {}, 0)
         ELSE CatalogResponse("getProducts", Absent, NoPayload, query, 200,
                              <<>>, products, Count(products))
    /\ UNCHANGED <<carts, products, usedIds, inflight>>

\* Mutant of FindByCategory: the filter is missing.
FindByCategoryFindsAll(ps, categoryId) == ps

\* Product.find({ category: categoryId })
FindByCategory(ps, categoryId) == {d \in ps : d.category = categoryId}

\* GET /api/products/category/:categoryId.  find() resolves to an array, and
\* an array, empty or not, is truthy: the else branch (404) is never taken.
getProductsByCategory(categoryId) ==
    LET found == FindByCategory(products, categoryId)
    IN  /\ last' = CatalogResponse("getProductsByCategory", categoryId,
                                   NoPayload, NoQuery, 200, <<>>, found,
                                   Count(found))
        /\ UNCHANGED <<carts, products, usedIds, inflight>>

----------------------------------------------------------------------------
(* Cart handlers taken apart at their awaits *)

\* The requests that may be in flight at once.
Slots == {1, 2}

\* Bodies of the interleaved requests: the valid ones and an invalid one.
RaceBodies ==
    {[product |-> p, quantity |-> Num(Whole(q))] :
        p \in ProductIds, q \in 1..2}
    \cup {[product |-> "p1", quantity |-> Num(Whole(0))]}

UsersBodies == {[product |-> p, quantity |-> Num(Whole(1))] : p \in ProductIds}

\* A request in flight.  pc: "idle" (no request), "write" (the cart was read,
\* the write is to come), "done" (answered with status).  Of the document
\* that findOne resolved to, the request holds what its write depends on:
\* found (there was a cart), k and held (the position and the quantity of the
\* item that find() returned, 0 for none), and kept (for a remove, the items
\* that filter() returned, when they are not all the items read).
Flight(pc, op, user, product, quantity, found, k, held, kept, stale, status) ==
    [pc |-> pc, op |-> op, user |-> user, product |-> product,
     quantity |-> quantity, found |-> found, k |-> k, held |-> held,
     kept |-> kept, stale |-> stale, status |-> status]

NoFlight ==
    Flight("idle", "none", Absent, Absent, 0, FALSE, 0, 0, <<>>, FALSE, 0)

\* The request has read the carts cs; its write is to come.
Reading(op, user, product, quantity, cs) ==
    LET found == HasCart(cs, user)
        items == IF found THEN CartItems(cs, user) ELSE <<>>
        k == FindItem(items, product)
    IN  Flight("write", op, user, product, quantity, found, k,
               IF k # 0 THEN items[k].quantity ELSE 0,
               IF op = "removeFromCart" /\ k # 0
               THEN FilterItems(items, product) ELSE <<>>,
               FALSE, 0)

\* The request is answered.
Answered(f, status) == [f EXCEPT !.pc = "done", !.status = status]

\* Cart.create({ user, items }) while other requests are in flight.  The
\* Cart collection is unique on the user reference: the insert of a second
\* cart of a user is rejected (duplicate key) and writes nothing.
DuplicateKey(cs, user) == HasCart(cs, user)

InsertCart(cs, user, items) ==
    IF DuplicateKey(cs, user) THEN cs ELSE CreateCart(cs, user, items)

\* save() after item.quantity was assigned: $set of items.k.quantity.
SaveSet(cs, i, k, quantity) == [cs EXCEPT ![i].items[k].quantity = quantity]

\* save() after items.push(item): $push, onto the items the store holds now.
SavePush(cs, i, item) == [cs EXCEPT ![i].items = Append(@, item)]

\* A write that advances the version of the cart of the user makes stale
\* what the other requests in flight have read of that cart.
Advance(fs, s, user) ==
    [t \in Slots |->
        IF t # s /\ fs[t].pc = "write" /\ fs[t].user = user /\ fs[t].found
        THEN [fs[t] EXCEPT !.stale = TRUE]
        ELSE fs[t]]

\* The outcome of the write of a request: the carts, the requests in flight
\* and the status.
Written(cs, fs, status) == [carts |-> cs, inflight |-> fs, status |-> status]

\* Mutant of addToCartWrite: the quantity is added to the one the store
\* holds at the write (an atomic increment), not to the one read.
addToCartWriteIncrements(cs, fs, s) ==
    LET f == fs[s]
        i == FindOne(cs, f.user)
    IN  IF ~f.found
        THEN Written(InsertCart(cs, f.user, <<Item(f.product, f.quantity)>>),
                     fs, IF DuplicateKey(cs, f.user) THEN 500 ELSE 200)
        ELSE IF f.k # 0
        THEN Written(SaveSet(cs, i, f.k,
                             cs[i].items[f.k].quantity + f.quantity), fs, 200)
        ELSE Written(SavePush(cs, i, Item(f.product, f.quantity)),
                     Advance(fs, s, f.user), 200)

\* addToCart from `if (!cart)' on, for what slot s has read.
addToCartWrite(cs, fs, s) ==
    LET f == fs[s]
        i == FindOne(cs, f.user)
    IN  IF ~f.found
        THEN Written(InsertCart(cs, f.user, <<Item(f.product, f.quantity)>>),
                     fs, IF DuplicateKey(cs, f.user) THEN 500 ELSE 200)
        ELSE IF f.k # 0
        THEN IF f.stale THEN Written(cs, fs, 500)
             ELSE Written(SaveSet(cs, i, f.k, f.held + f.quantity), fs, 200)
        ELSE Written(SavePush(cs, i, Item(f.product, f.quantity)),
                     Advance(fs, s, f.user), 200)

\* updateCart from `item.quantity = quantity' on.  A quantity that is the
\* one read modifies nothing, and save() sends nothing.
updateCartWrite(cs, fs, s) ==
    LET f == fs[s]
        i == FindOne(cs, f.user)
    IN  IF f.held = f.quantity THEN Written(cs, fs, 200)
        ELSE IF f.stale THEN Written(cs, fs, 500)
        ELSE Written(SaveSet(cs, i, f.k, f.quantity), fs, 200)

\* removeFromCart from `cart.items = cart.items.filter(...)' on: the
\* outcomes it may have.  When the filter removed nothing the array assigned
\* equals the one read; whether save() then sends it depends on the
\* library's comparison, so a stale request may fail or succeed.
removeFromCartWrite(cs, fs, s) ==
    LET f == fs[s]
        i == FindOne(cs, f.user)
    IN  IF f.k = 0
        THEN {Written(cs, fs, 200)}
             \cup (IF f.stale THEN {Written(cs, fs, 500)} ELSE {})
        ELSE IF f.stale THEN {Written(cs, fs, 500)}
        ELSE {Written(Save(cs, i, f.kept), Advance(fs, s, f.user), 200)}

----------------------------------------------------------------------------
(* Specifications *)

\* Both collections are empty and no request has been handled.
Init ==
    /\ carts = <<>>
    /\ products = {}
    /\ usedIds = {}
    /\ last = NoRequest
    /\ inflight = [s \in Slots |-> NoFlight]

\* No request is being handled: the last response has been sent.
Idle == last = NoRequest

\* A cart request is handled: the handler's outcome becomes the state.  A
\* request is taken only when no other is being handled (Idle).
Handle(op, user, product, quantity, items, out) ==
    /\ carts' = out.carts
    /\ last' = Response(op, user, product, quantity, items, out.status, out.errors)
    /\ UNCHANGED <<products, usedIds, inflight>>

\* The quantities the model stores stay within the cap.
WithinCap(cs) ==
    \A i \in 1..Len(cs) : \A k \in 1..Len(cs[i].items) :
        cs[i].items[k].quantity <= Whole(MaxQty)

GetCart ==
    /\ Idle
    /\ \E u \in Users :
        \E out \in {getCart(carts, u)} :
            Handle("getCart", u, Absent, NoNum, <<>>, out)

AddToCart ==
    /\ Idle
    /\ \E u \in Users, body \in CartBodies :
        \E out \in {addToCart(carts, LiveIds, u, body)} :
            /\ WithinCap(out.carts)
            /\ Handle("addToCart", u, body.product, body.quantity, <<>>, out)

UpdateCart ==
    /\ Idle
    /\ \E u \in Users, body \in CartBodies :
        \E out \in {updateCart(carts, u, body)} :
            Handle("updateCart", u, body.product, body.quantity, <<>>, out)

RemoveFromCart ==
    /\ Idle
    /\ \E u \in Users, p \in ProductIds :
        \E out \in {removeFromCart(carts, u, p)} :
            Handle("removeFromCart", u, p, NoNum, <<>>, out)

UpdateCartForUser ==
    /\ Idle
    /\ \E u \in Users \cup {BadId}, items \in ReplaceInputs :
        \E out \in {updateCartForUser(carts, u, items)} :
            Handle("updateCartForUser", u, Absent, NoNum, items, out)

CreateProduct == Idle /\ \E payload \in ProductPayloads : createProduct(payload)
DeleteProduct == Idle /\ \E id \in ProductIds : deleteProduct(id)

\* res.json(...) / res.status(...).json(...): the response leaves and the
\* request-response cycle ends; the collections are as the handler left them.
Respond ==
    /\ ~Idle
    /\ last' = NoRequest
    /\ UNCHANGED <<carts, products, usedIds, inflight>>

\* The per-item cart operations and the catalog: every request runs to
\* completion before the next one starts.
NextItems ==
    \/ GetCart
    \/ AddToCart
    \/ UpdateCart
    \/ RemoveFromCart
    \/ CreateProduct
    \/ DeleteProduct
    \/ Respond

SpecItems == Init /\ [][NextItems]_vars

\* All Cart Service operations, the bulk replace included.
Next ==
    \/ NextItems
    \/ UpdateCartForUser

Spec == Init /\ [][Next]_vars

\* The Catalog Service on its own, over every payload.
CreateAnyProduct ==
    Idle /\ \E payload \in CatalogPayloads : createProduct(payload)
GetProductById == Idle /\ \E id \in ProductIds : getProductById(id)
UpdateProduct ==
    Idle /\ \E id \in ProductIds, payload \in CatalogPayloads :
                updateProduct(id, payload)

GetProducts == Idle /\ \E query \in Queries : getProducts(query)
GetProductsByCategory ==
    Idle /\ \E categoryId \in Categories : getProductsByCategory(categoryId)

NextCatalog ==
    \/ CreateAnyProduct
    \/ GetProducts
    \/ GetProductsByCategory
    \/ GetProductById
    \/ UpdateProduct
    \/ DeleteProduct
    \/ Respond

SpecCatalog == Init /\ [][NextCatalog]_vars

\* Cart requests in flight together.  The catalog holds both products, as
\* after two creates, and no cart exists yet.
InitRace ==
    /\ carts = <<>>
    /\ products = {ProductDoc(id, ValidPayload) : id \in ProductIds}
    /\ usedIds = ProductIds
    /\ last = NoRequest
    /\ inflight = [s \in Slots |-> NoFlight]

\* The carts stay within the caps of the model.
WithinCaps(cs) ==
    /\ WithinCap(cs)
    /\ \A i \in 1..Len(cs) : Len(cs[i].items) <= MaxItems

\* The responses of the requests answered have left.  A request is taken up
\* only then: the order of a response leaving and of the steps of the other
\* requests makes no difference to the store.
NoneDone == \A t \in Slots : inflight[t].pc # "done"

\* addToCart up to `await Cart.findOne(...)': validation, then the read.
BeginAdd(s, users, bodies) ==
    /\ inflight[s].pc = "idle"
    /\ NoneDone
    /\ \E u \in users, body \in bodies :
        LET f == Reading("addToCart", u, body.product, body.quantity.half,
                         carts)
        IN  inflight' =
              [inflight EXCEPT ![s] =
                 IF cartItemSchemaValidate(body) # <<>> THEN Answered(f, 400)
                 ELSE IF f.found
                         /\ PopulatedFind(CartItems(carts, u), body.product,
                                          LiveIds) = -1
                 THEN Answered(f, 500)
                 ELSE f]
    /\ UNCHANGED <<carts, products, usedIds, last>>

\* updateCart up to `item.quantity = quantity'.
BeginUpdate(s, users, bodies) ==
    /\ inflight[s].pc = "idle"
    /\ NoneDone
    /\ \E u \in users, body \in bodies :
        LET f == Reading("updateCart", u, body.product, body.quantity.half,
                         carts)
        IN  inflight' =
              [inflight EXCEPT ![s] =
                 IF cartItemSchemaValidate(body) # <<>> THEN Answered(f, 400)
                 ELSE IF ~f.found THEN Answered(f, 404)
                 ELSE IF f.k = 0 THEN Answered(f, 404)
                 ELSE f]
    /\ UNCHANGED <<carts, products, usedIds, last>>

\* removeFromCart up to `cart.items = ...'.
BeginRemove(s, users) ==
    /\ inflight[s].pc = "idle"
    /\ NoneDone
    /\ \E u \in users, p \in ProductIds :
        LET f == Reading("removeFromCart", u, p, 0, carts)
        IN  inflight' =
              [inflight EXCEPT ![s] = IF ~f.found THEN Answered(f, 404) ELSE f]
    /\ UNCHANGED <<carts, products, usedIds, last>>

\* The write of the request of slot s, and its answer.
Write(s, out) ==
    /\ WithinCaps(out.carts)
    /\ carts' = out.carts
    /\ inflight' = [out.inflight EXCEPT ![s] = Answered(@, out.status)]
    /\ UNCHANGED <<products, usedIds, last>>

WriteAdd(s) ==
    /\ inflight[s].pc = "write"
    /\ inflight[s].op = "addToCart"
    /\ \E out \in {addToCartWrite(carts, inflight, s)} : Write(s, out)

WriteUpdate(s) ==
    /\ inflight[s].pc = "write"
    /\ inflight[s].op = "updateCart"
    /\ \E out \in {updateCartWrite(carts, inflight, s)} : Write(s, out)

WriteRemove(s) ==
    /\ inflight[s].pc = "write"
    /\ inflight[s].op = "removeFromCart"
    /\ \E out \in removeFromCartWrite(carts, inflight, s) : Write(s, out)

\* The response has left: the slot is free for the next request.
Finish(s) ==
    /\ inflight[s].pc = "done"
    /\ inflight' = [inflight EXCEPT ![s] = NoFlight]
    /\ UNCHANGED <<carts, products, usedIds, last>>

\* Two requests of one user in flight together.
NextRace ==
    \E s \in Slots :
        \/ BeginAdd(s, {"u1"}, RaceBodies)
        \/ BeginUpdate(s, {"u1"}, RaceBodies)
        \/ BeginRemove(s, {"u1"})
        \/ WriteAdd(s)
        \/ WriteUpdate(s)
        \/ WriteRemove(s)
        \/ Finish(s)

SpecRace == InitRace /\ [][NextRace]_vars

\* A request of one user and a request of the other in flight together,
\* over the bodies with quantity 1.
SlotUser(s) == IF s = 1 THEN "u1" ELSE "u2"

NextUsers ==
    \E s \in Slots :
        \/ BeginAdd(s, {SlotUser(s)}, UsersBodies)
        \/ BeginUpdate(s, {SlotUser(s)}, UsersBodies)
        \/ BeginRemove(s, {SlotUser(s)})
        \/ WriteAdd(s)
        \/ WriteUpdate(s)
        \/ WriteRemove(s)
        \/ Finish(s)

SpecUsers == InitRace /\ [][NextUsers]_vars

----------------------------------------------------------------------------
(* Properties *)

\* The positions of the items of a product in an item sequence.
ItemsOf(items, product) == {k \in 1..Len(items) : items[k].product = product}

\* The request just handled was answered with success.
Succeeded(op) == last.op = op /\ last.status = 200

\* C1: after any sequence of addItem, updateItem and removeItem requests, each
\* handled to completion, no cart holds two items of the same product.
C1_NoDuplicateProduct ==
    \A i \in 1..Len(carts) :
        \A j, k \in 1..Len(carts[i].items) :
            j # k => carts[i].items[j].product # carts[i].items[k].product

\* C1 witness: an add has just merged into an item of a cart of two items.
C1_Witness ==
    /\ Succeeded("addToCart")
    /\ LET items == CartItems(carts, last.user)
       IN  /\ Len(items) = 2
           /\ \E k \in ItemsOf(items, last.product) :
                items[k].quantity > last.quantity.half

\* C4: after any sequence of addItem, updateItem and removeItem requests,
\* every item of every cart has a quantity that is an integer greater than 0.
C4_QuantityPositiveInteger ==
    \A i \in 1..Len(carts) :
        \A k \in 1..Len(carts[i].items) :
            /\ carts[i].items[k].quantity % 2 = 0
            /\ carts[i].items[k].quantity > 0

\* C4 witness: an update has just set a quantity in a cart of two items whose
\* other item was accumulated by adds.
C4_Witness ==
    /\ Succeeded("updateCart")
    /\ LET items == CartItems(carts, last.user)
       IN  /\ Len(items) = 2
           /\ \E k \in 1..2 : /\ items[k].product # last.product
                              /\ items[k].quantity = Whole(MaxQty)

\* The least position of a non-empty set of positions.
First(S) == CHOOSE k \in S : \A j \in S : k <= j

\* The body of the request just handled, in the next state of a step.
LastBody == [product |-> last.product, quantity |-> last.quantity]

\* A step leaves every cart of the other users, and the owner of every cart,
\* as they were, and leaves the catalog alone.
OnlyItemsOf(user) ==
    /\ Len(carts') = Len(carts)
    /\ \A i \in 1..Len(carts) :
        /\ carts'[i].user = carts[i].user
        /\ carts[i].user # user => carts'[i] = carts[i]
    /\ products' = products

\* A step adds one cart, of this user, after the carts there were.
OnlyCreatesCartOf(user) ==
    /\ Len(carts') = Len(carts) + 1
    /\ SubSeq(carts', 1, Len(carts)) = carts
    /\ carts'[Len(carts')].user = user
    /\ products' = products

\* C2: a successful addItem(U, P, q2) on a cart that holds an item of P with
\* quantity q1 leaves that item with q1 + q2, leaves every other item, its
\* position included, as it was and adds no item of P; on a cart without P it
\* appends {P, q2} at the end; for a user without a cart it creates a cart
\* whose only item is {P, q2}.
C2_AddStep ==
    (last'.op = "addToCart" /\ last'.status = 200) =>
        LET u == last'.user
            P == last'.product
            q2 == last'.quantity.half
        IN  IF ~HasCart(carts, u)
            THEN /\ OnlyCreatesCartOf(u)
                 /\ CartItems(carts', u) = <<Item(P, q2)>>
            ELSE LET old == CartItems(carts, u)
                     new == CartItems(carts', u)
                 IN  /\ OnlyItemsOf(u)
                     /\ IF ItemsOf(old, P) = {}
                        THEN new = old \o <<Item(P, q2)>>
                        ELSE /\ Len(new) = Len(old)
                             /\ ItemsOf(new, P) = ItemsOf(old, P)
                             /\ \A k \in 1..Len(old) :
                                 new[k] = IF k = First(ItemsOf(old, P))
                                          THEN Item(P, old[k].quantity + q2)
                                          ELSE old[k]

C3_UpdateStep ==
    (last'.op = "updateCart" /\ last'.status = 200) =>
        LET u == last'.user
            P == last'.product
            q == last'.quantity.half
            old == CartItems(carts, u)
            new == CartItems(carts', u)
            again == updateCart(carts', u, LastBody')
        IN  /\ HasCart(carts, u)
            /\ ItemsOf(old, P) # {}
            /\ OnlyItemsOf(u)
            /\ Len(new) = Len(old)
            /\ \A k \in 1..Len(old) :
                new[k] = IF k = First(ItemsOf(old, P)) THEN Item(P, q) ELSE old[k]
            /\ again.status = 200
            /\ again.carts = carts'

\* C3: every step that answers an updateItem with success sets the quantity
\* and is idempotent, as C3_UpdateStep states.
C3_UpdateSets == [][C3_UpdateStep]_vars

\* C3 witness: an update has just set an item to 1 in a cart whose other item
\* holds 3.
C3_Witness ==
    /\ Succeeded("updateCart")
    /\ last.quantity = Num(Whole(1))
    /\ LET items == CartItems(carts, last.user)
       IN  /\ Len(items) = 2
           /\ items[2] = Item(last.product, Whole(1))
           /\ items[1].quantity = Whole(3)

\* A body that the contract of addItem and updateItem rejects: the product id
\* is missing, or the quantity is missing, not an integer, zero or negative.
Invalid(body) ==
    \/ body.product = Absent
    \/ ~body.quantity.present
    \/ body.quantity.half % 2 # 0
    \/ body.quantity.half <= 0

StoreUnchanged == carts' = carts /\ products' = products /\ usedIds' = usedIds

\* C5: an addItem or updateItem request with a missing product id or a
\* quantity that is missing, not an integer, zero or negative is answered
\* InvalidInput (400, with messages) and both collections stay as they were.
C5_InvalidStep ==
    (last'.op \in {"addToCart", "updateCart"} /\ Invalid(LastBody')) =>
        /\ last'.status = 400
        /\ last'.errors # <<>>
        /\ StoreUnchanged

\* C5: every step that handles an invalid addItem or updateItem is answered
\* InvalidInput and changes nothing, as C5_InvalidStep states.
C5_InvalidInputChangesNothing == [][C5_InvalidStep]_vars

\* C5 witness: an add with quantity 0 by a user without a cart has just been
\* rejected, while another user has a cart.
C5_Witness ==
    /\ last.op = "addToCart"
    /\ last.status = 400
    /\ last.quantity = Num(Whole(0))
    /\ last.product \in ProductIds
    /\ ~HasCart(carts, last.user)
    /\ carts # <<>>

\* C6: a valid updateItem(U, P, q) is answered 404 "Cart not found" when U has
\* no cart and 404 "Item not found in cart" when U's cart has no item of P;
\* both leave the collections as they were, and neither is the 400 of
\* InvalidInput.
C6_NotFoundStep ==
    (last'.op = "updateCart" /\ ~Invalid(LastBody')) =>
        LET u == last'.user
            P == last'.product
        IN  /\ ~HasCart(carts, u) =>
                /\ last'.status = 404
                /\ last'.errors = <<"Cart not found">>
                /\ StoreUnchanged
            /\ (HasCart(carts, u) /\ ItemsOf(CartItems(carts, u), P) = {}) =>
                /\ last'.status = 404
                /\ last'.errors = <<"Item not found in cart">>
                /\ StoreUnchanged

\* C6: every step that handles a valid updateItem without a cart, or without
\* the item, is answered NotFound and changes nothing, as C6_NotFoundStep states.
C6_UpdateNotFound == [][C6_NotFoundStep]_vars

\* C6 witness: an update of a product that the user's cart, of one item, does
\* not hold has just been answered "Item not found in cart".
C6_Witness ==
    /\ last.op = "updateCart"
    /\ last.status = 404
    /\ last.errors = <<"Item not found in cart">>
    /\ Len(CartItems(carts, last.user)) = 1

\* C7: removeItem(U, P) for a user with a cart succeeds whether or not the
\* cart holds P; it leaves no item of P and keeps the other items, with their
\* quantities, in their order; without an item of P the items are unchanged;
\* the same request handled again leaves the carts as the first left them.
\* For a user without a cart it is answered "Cart not found" and nothing is
\* created.
C7_RemoveStep ==
    (last'.op = "removeFromCart") =>
        LET u == last'.user
            P == last'.product
            again == removeFromCart(carts', u, P)
        IN  IF ~HasCart(carts, u)
            THEN /\ last'.status = 404
                 /\ last'.errors = <<"Cart not found">>
                 /\ StoreUnchanged
            ELSE LET old == CartItems(carts, u)
                     new == CartItems(carts', u)
                     gone == ItemsOf(old, P)
                 IN  /\ last'.status = 200
                     /\ OnlyItemsOf(u)
                     /\ ItemsOf(new, P) = {}
                     /\ Len(new) = Len(old) - Cardinality(gone)
                     /\ \A k \in (1..Len(old)) \ gone :
                         new[k - Cardinality({j \in gone : j < k})] = old[k]
                     /\ gone = {} => new = old
                     /\ again.status = 200
                     /\ again.carts = carts'

\* C7: every step that handles a removeItem filters the product out and is
\* idempotent, as C7_RemoveStep states.
C7_RemoveIdempotent == [][C7_RemoveStep]_vars

\* C7 witness: a remove has just succeeded and left a cart with one item, of
\* another product.
C7_Witness ==
    /\ Succeeded("removeFromCart")
    /\ LET items == CartItems(carts, last.user)
       IN  /\ Len(items) = 1
           /\ items[1].product # last.product

\* C8: a cart that exists still exists after any Cart Service operation, and
\* a successful removeItem leaves the user with a cart, present though it may
\* be empty.
C8_CartStep ==
    /\ \A u \in Users : HasCart(carts, u) => HasCart(carts', u)
    /\ (last'.op = "removeFromCart" /\ last'.status = 200) =>
            HasCart(carts', last'.user)

\* C8: no step takes a cart away from a user who has one, as C8_CartStep
\* states.
C8_CartNeverAbsentAgain == [][C8_CartStep]_vars

\* C8 witness: a remove has just succeeded and the user's cart is present and
\* empty.
C8_Witness ==
    /\ Succeeded("removeFromCart")
    /\ HasCart(carts, last.user)
    /\ CartItems(carts, last.user) = <<>>

\* A step gives a cart to a user who had none.
CartCreatedFor(u) == ~HasCart(carts, u) /\ HasCart(carts', u)

\* C9 as stated: a cart of U comes into existence only by a successful addItem
\* of U.
C9_OnlyAddCreates ==
    [][\A u \in Users :
        CartCreatedFor(u) =>
            last'.op = "addToCart" /\ last'.user = u /\ last'.status = 200]_vars

\* C9 amended: a cart of U comes into existence only by a successful addItem
\* of U or a successful replaceAllItems whose target is U; get, updateItem and
\* removeItem never create a cart.
C9_OnlyAddOrReplaceCreates ==
    [][\A u \in Users :
        CartCreatedFor(u) =>
            /\ last'.op \in {"addToCart", "updateCartForUser"}
            /\ last'.user = u
            /\ last'.status = 200]_vars

\* C9 witness: a bulk replace has just succeeded, its target's cart is the
\* only cart and holds a repeated product, which no add can store.
C9_Witness ==
    /\ Succeeded("updateCartForUser")
    /\ Len(carts) = 1
    /\ carts[1].user = last.user
    /\ Cardinality(ItemsOf(carts[1].items, "p1")) = 2

\* C10: a successful replaceAllItems(target, items) is one step after which
\* the target has a cart, created if there was none, whose items are exactly
\* the ones sent, unmerged and unvalidated; the carts of the other users are
\* as they were; and for a well-formed target id it always succeeds.
C10_ReplaceStep ==
    (last'.op = "updateCartForUser") =>
        LET t == last'.user
        IN  /\ t \in Users => last'.status = 200
            /\ last'.status = 200 =>
                /\ HasCart(carts', t)
                /\ CartItems(carts', t) = last'.items
                /\ IF HasCart(carts, t)
                   THEN OnlyItemsOf(t)
                   ELSE OnlyCreatesCartOf(t)

\* C10: every step that handles a replaceAllItems overwrites the target's
\* items and nothing else, as C10_ReplaceStep states.
C10_ReplaceOverwrites == [][C10_ReplaceStep]_vars

\* C10 witness: a bulk replace has just stored a repeated product for its
\* target while the other user holds a cart with an item.
C10_Witness ==
    /\ Succeeded("updateCartForUser")
    /\ last.items = <<Item("p1", Whole(1)), Item("p1", Whole(2))>>
    /\ CartItems(carts, last.user) = last.items
    /\ \E u \in Users \ {last.user} :
        HasCart(carts, u) /\ CartItems(carts, u) # <<>>

----------------------------------------------------------------------------
(* Properties of the Catalog Service *)

\* The required keys that a product payload does not carry.
MissingKeys(payload) ==
    (IF payload.name = Absent THEN {"name"} ELSE {})
    \cup (IF payload.description = Absent THEN {"description"} ELSE {})
    \cup (IF ~payload.price.present THEN {"price"} ELSE {})
    \cup (IF payload.category = Absent THEN {"category"} ELSE {})
    \cup (IF ~payload.stock.present THEN {"stock"} ELSE {})

\* The message of the schema for a required key that is missing.
MessageFor(key) ==
    CASE key = "name" -> "Name is required"
      [] key = "description" -> "Description is required"
      [] key = "price" -> "Price is required"
      [] key = "category" -> "Category is required"
      [] key = "stock" -> "Stock is required"

\* The ids of products that were deleted: assigned once, live no more.
DeletedIds == usedIds \ LiveIds

\* The products other than the one of this id are the same before and after
\* the step.
OthersUnchanged(id) ==
    {d \in products : d.id # id} = {d \in products' : d.id # id}

C11_UpdateStep ==
    (last'.op = "updateProduct" /\ MissingKeys(last'.payload) = {}) =>
        LET id == last'.product
            payload == last'.payload
        IN  IF id \notin LiveIds
            THEN /\ last'.status = 404
                 /\ products' = products
                 /\ usedIds' = usedIds
            ELSE /\ last'.status = 200
                 /\ OthersUnchanged(id)
                 /\ LiveIds' = LiveIds
                 /\ \A old \in products : old.id = id =>
                      \A d \in products' : d.id = id =>
                        /\ d.name = payload.name
                        /\ d.description = payload.description
                        /\ d.price = payload.price
                        /\ d.category = payload.category
                        /\ d.stock = payload.stock
                        /\ d.image \in {payload.image, old.image}
                        /\ d.brand \in {payload.brand, old.brand}
                        /\ payload.brand # Absent => d.brand = payload.brand
                 /\ Cardinality({d \in products' : d.id = id}) = 1
                 /\ last'.body = {d \in products' : d.id = id}

\* C11: an update with a valid payload whose id matches no product is
\* answered NotFound and leaves the catalog as it was, no product created;
\* when the id matches, that product takes the payload's values for the
\* fields the payload carries (an optional field the payload omits is kept or
\* cleared) and every other product is unchanged.
C11_UpdateNotFoundOrReplaces == [][C11_UpdateStep]_vars

\* C11 witness: an update of an id that matches none of the products of a
\* catalog that holds one has been answered NotFound.
C11_Witness ==
    /\ last.op = "updateProduct"
    /\ last.status = 404
    /\ products # {}
    /\ last.product \notin LiveIds

C12_DeleteStep ==
    /\ last'.op = "deleteProduct" =>
         IF last'.product \in LiveIds
         THEN /\ last'.status = 200
              /\ LiveIds' = LiveIds \ {last'.product}
              /\ OthersUnchanged(last'.product)
         ELSE /\ last'.status = 404
              /\ products' = products
    /\ last'.op = "getProductById" =>
         /\ products' = products
         /\ last'.status = IF last'.product \in LiveIds THEN 200 ELSE 404
    /\ (last'.op \in {"getProductById", "deleteProduct"}
         /\ last'.product \in DeletedIds) => last'.status = 404
    /\ DeletedIds \subseteq DeletedIds'

\* C12: delete(id) removes exactly the product of that id and confirms, or
\* is answered NotFound and changes nothing when there is none; a deleted id
\* stays deleted, and every getById and delete of a deleted id is answered
\* NotFound; getById never changes the catalog.
C12_DeleteRemovesForGood == [][C12_DeleteStep]_vars

\* C12 witness: a getById of a deleted product is answered NotFound while
\* another product is live.
C12_Witness ==
    /\ last.op = "getProductById"
    /\ last.status = 404
    /\ last.product \in DeletedIds
    /\ products # {}

C13_ValidateStep ==
    (last'.op \in {"createProduct", "updateProduct"}
     /\ MissingKeys(last'.payload) # {}) =>
        /\ last'.status = 400
        /\ Len(last'.errors) = Cardinality(MissingKeys(last'.payload))
        /\ \A key \in MissingKeys(last'.payload) :
              \E i \in 1..Len(last'.errors) : last'.errors[i] = MessageFor(key)
        /\ UNCHANGED <<carts, products, usedIds>>

\* C13: a create or an update whose payload misses some of name, description,
\* price, category and stock is answered InvalidInput with exactly one
\* message for each missing key, all of them, and nothing is written; an
\* update is answered so also when its id matches no product.
C13_InvalidPayloadRejected == [][C13_ValidateStep]_vars

\* C13 witness: an update of an id that matches no product, its payload
\* missing several required keys, has been answered InvalidInput.
C13_Witness ==
    /\ last.op = "updateProduct"
    /\ last.status = 400
    /\ Len(last.errors) >= 2
    /\ last.product \notin LiveIds

\* The term is contained in the name as a substring, letters compared
\* without regard to case and every other character literally.
Contains(chars, name) ==
    LET n == NameChars(name)
    IN  \E o \in 0..(Len(n) - Len(chars)) :
            \A i \in 1..Len(chars) : Lower(chars[i]) = Lower(n[o + i])

C14_ListStep ==
    last'.op = "getProducts" =>
        /\ last'.status = 200
        /\ last'.body = IF last'.query.present
                        THEN {d \in products :
                                Contains(last'.query.chars, d.name)}
                        ELSE products
        /\ last'.count = Cardinality(last'.body)

\* C14: list(searchTerm) returns exactly the products whose name contains
\* the term as a case-insensitive substring, for every term over the
\* alphabet, the characters special in a pattern included, and the whole
\* catalog when no term is given; the count is the number of products
\* returned.
C14_ListBySubstring == [][C14_ListStep]_vars

C15_CategoryStep ==
    last'.op = "getProductsByCategory" =>
        /\ last'.status = 200
        /\ last'.body = {d \in products : d.category = last'.product}
        /\ last'.count = Cardinality(last'.body)
        /\ products' = products

\* C15: listByCategory(categoryId) returns exactly the products whose
\* category is categoryId and their number as count; with no such product it
\* is a success with count 0 and no products, never NotFound.
C15_ListByCategory == [][C15_CategoryStep]_vars

\* C15 witness: a category that none of the products of the catalog has
\* was listed with success, count 0.
C15_Witness ==
    /\ last.op = "getProductsByCategory"
    /\ last.status = 200
    /\ last.count = 0
    /\ last.body = {}
    /\ products # {}

----------------------------------------------------------------------------
(* Cart operations after a product was deleted *)

\* The cart of the user holds an item whose product was deleted.
HoldsDeleted(cs, user) ==
    \E k \in 1..Len(CartItems(cs, user)) :
        CartItems(cs, user)[k].product \in DeletedIds

C19_DeletedProductStep ==
    \A u \in Users :
        (last'.user = u /\ HasCart(carts, u) /\ HoldsDeleted(carts, u)) =>
            LET items == CartItems(carts, u)
                P == last'.product
                held == ItemsOf(items, P)
            IN  /\ (last'.op = "addToCart" /\ ~Invalid(LastBody')) =>
                     /\ last'.status = 200
                     /\ CartItems(carts', u) =
                          IF held # {}
                          THEN [items EXCEPT ![First(held)].quantity =
                                                @ + last'.quantity.half]
                          ELSE Append(items, Item(P, last'.quantity.half))
                /\ (last'.op = "updateCart" /\ ~Invalid(LastBody')
                     /\ held # {}) =>
                     /\ last'.status = 200
                     /\ CartItems(carts', u) =
                          [items EXCEPT ![First(held)].quantity =
                                            last'.quantity.half]
                /\ last'.op = "removeFromCart" =>
                     /\ last'.status = 200
                     /\ \A k \in 1..Len(items) :
                          (items[k].product \in DeletedIds
                           /\ items[k].product # P) =>
                              \E j \in 1..Len(CartItems(carts', u)) :
                                 CartItems(carts', u)[j] = items[k]

\* C19: on a cart that holds an item whose product was deleted from the
\* catalog, a valid addItem, for that product or another, still merges or
\* appends and is answered with success, as updateItem and removeItem are,
\* and the item of the deleted product stays in the cart as it was.
C19_DeleteLeavesCartOperations == [][C19_DeletedProductStep]_vars

\* C19 witness: an add was handled on a cart that holds an item of a deleted
\* product.
C19_Witness ==
    /\ last.op = "addToCart"
    /\ ~Invalid(LastBody)
    /\ HasCart(carts, last.user)
    /\ HoldsDeleted(carts, last.user)
    /\ last.status = 500

----------------------------------------------------------------------------
(* Properties of requests in flight together *)

\* Both requests are answered adds of the same product by the same user.
\* Neither was taken up after the other was answered, so each read the cart
\* before either wrote.
AddsTogether(s, t) ==
    /\ s # t
    /\ inflight[s].pc = "done" /\ inflight[t].pc = "done"
    /\ inflight[s].op = "addToCart" /\ inflight[t].op = "addToCart"
    /\ inflight[s].status # 400 /\ inflight[t].status # 400
    /\ inflight[s].user = inflight[t].user

\* C16: when two adds of the same user for the same product P, which the
\* cart of the user does not hold yet, interleave their reads and writes,
\* the resulting cart has at most one item of P.
C16_UniqueUnderInterleaving ==
    \A s, t \in Slots :
        (/\ AddsTogether(s, t)
         /\ inflight[s].product = inflight[t].product
         /\ inflight[s].found /\ inflight[t].found
         /\ inflight[s].k = 0 /\ inflight[t].k = 0) =>
            Cardinality(ItemsOf(CartItems(carts, inflight[s].user),
                                inflight[s].product)) <= 1

\* C16 witness: two such adds have both been answered with success.
C16_Witness ==
    \E s, t \in Slots :
        /\ AddsTogether(s, t)
        /\ inflight[s].product = inflight[t].product
        /\ inflight[s].found /\ inflight[t].found
        /\ inflight[s].k = 0 /\ inflight[t].k = 0
        /\ inflight[s].status = 200 /\ inflight[t].status = 200

\* Two adds in flight together both read the item of their product, with
\* quantity q0, and no third request pushed to the cart or replaced its items
\* before they wrote.
MergesTogether(s, t) ==
    /\ AddsTogether(s, t)
    /\ inflight[s].product = inflight[t].product
    /\ inflight[s].found /\ inflight[t].found
    /\ inflight[s].k # 0 /\ inflight[t].k = inflight[s].k
    /\ inflight[t].held = inflight[s].held
    /\ ~inflight[s].stale /\ ~inflight[t].stale

\* C17: a lost update is reachable, and more: whenever two adds of the same
\* user for a product already in the cart with quantity q0, adding q1 and
\* q2, both read before either writes, both are answered with success and
\* the item is left with q0+q1 or q0+q2, never with q0+q1+q2.
C17_LostUpdate ==
    \A s, t \in Slots :
        MergesTogether(s, t) =>
            LET q0 == inflight[s].held
                q1 == inflight[s].quantity
                q2 == inflight[t].quantity
                q == CartItems(carts, inflight[s].user)[inflight[s].k].quantity
            IN  /\ inflight[s].status = 200 /\ inflight[t].status = 200
                /\ q \in {q0 + q1, q0 + q2}
                /\ q # q0 + q1 + q2

\* C17 witness: two adds of different quantities for a product in the cart
\* were both answered with success, and the item holds less than the sum.
C17_Witness ==
    \E s, t \in Slots :
        /\ MergesTogether(s, t)
        /\ inflight[s].status = 200 /\ inflight[t].status = 200
        /\ inflight[s].quantity # inflight[t].quantity
        /\ CartItems(carts, inflight[s].user)[inflight[s].k].quantity
             < inflight[s].held + inflight[s].quantity + inflight[t].quantity

\* C18: no user has two carts; and when two adds of a user without a cart
\* both read `no cart' before either creates one, the items of both are in
\* the one cart that results.
C18_OneCartNothingDropped ==
    /\ \A i, j \in 1..Len(carts) : i # j => carts[i].user # carts[j].user
    /\ \A s, t \in Slots :
        (AddsTogether(s, t) /\ ~inflight[s].found /\ ~inflight[t].found) =>
            /\ HasCart(carts, inflight[s].user)
            /\ ItemsOf(CartItems(carts, inflight[s].user),
                       inflight[s].product) # {}
            /\ ItemsOf(CartItems(carts, inflight[s].user),
                       inflight[t].product) # {}

\* C18 witness: two adds that both read `no cart' have both been answered.
C18_Witness ==
    \E s, t \in Slots :
        /\ AddsTogether(s, t)
        /\ ~inflight[s].found /\ ~inflight[t].found
        /\ inflight[s].product # inflight[t].product
        /\ Len(carts) = 1

C20_FrameStep ==
    /\ products' = products
    /\ usedIds' = usedIds
    /\ Len(carts') >= Len(carts)
    /\ \A i \in 1..Len(carts) : carts'[i].user = carts[i].user
    /\ \A s \in Slots :
        inflight'[s].pc # inflight[s].pc =>
            LET u == IF inflight[s].pc = "idle" THEN inflight'[s].user
                     ELSE inflight[s].user
            IN  /\ \A i \in 1..Len(carts) :
                     carts[i].user # u => carts'[i] = carts[i]
                /\ \A i \in (Len(carts) + 1)..Len(carts') : carts'[i].user = u
    /\ (\A s \in Slots : inflight'[s].pc = inflight[s].pc) => carts' = carts

\* C20: every step of an add, update or remove of user U, in any interleaving
\* with the requests of another user, leaves the carts of the other users and
\* the catalog as they were, and the user of an existing cart never changes.
C20_OnlyOwnCartChanges == [][C20_FrameStep]_vars

\* C20 witness: a request of u2 has written to the cart of u2 between the
\* read and the write of a request of u1.
C20_Witness ==
    /\ inflight[1].pc = "write"
    /\ inflight[1].found
    /\ inflight[2].pc = "done"
    /\ inflight[2].status = 200
    /\ inflight[2].op = "removeFromCart"
    /\ inflight[2].k # 0
    /\ HasCart(carts, "u1")

=============================================================================
